---- MODULE Spec2Model ----
(***************************************************************************)
(* Execution layer of the minishell: execute(), single_cmd(),              *)
(* ft_waitpid(), execute_cmd(), execute_currdir(), ft_execve() and the     *)
(* descriptor wrappers ft_dup()/ft_dup2().                                 *)
(*                                                                         *)
(* C strings are sequences of one-character strings; the terminating NUL   *)
(* is what CharAt returns at and past the end.  An argument vector is a    *)
(* sequence of such strings; str[0] of the C code is str[1] here and is    *)
(* the NULL terminator when the sequence is empty.                         *)
(***************************************************************************)
EXTENDS Integers, Sequences, FiniteSets, TLC

\* ------------------------------------------------------------------ bounds
MaxStages == 2
MaxRuns == 2
NFd == 8

\* ------------------------------------------------------- program constants
STDIN == 0
STDOUT == 1
SIGINT == 2
SIGQUIT == 3
SIGKILL == 9
SIGSEGV == 11

\* --------------------------------------------------------------- C strings
NUL == "NUL"

CharAt(s, i) == IF i < Len(s) THEN s[i + 1] ELSE NUL

\* ft_strncmp(s1, s2, n) == 0
ft_strncmp(s1, s2, n) ==
    \A i \in 0..(n - 1) :
        (\A j \in 0..(i - 1) : CharAt(s1, j) = CharAt(s2, j) /\ CharAt(s1, j) # NUL)
            => CharAt(s1, i) = CharAt(s2, i)

\* ft_strchr(s, c) != NULL
ft_strchr(s, c) == \E i \in 1..Len(s) : s[i] = c

\* ft_split(s, c): the non-empty fields of s between separators c
RECURSIVE ft_split(_, _)
ft_split(s, c) ==
    IF Len(s) = 0 THEN <<>>
    ELSE IF s[1] = c THEN ft_split(Tail(s), c)
    ELSE LET stops == {k \in 1..Len(s) : s[k] = c}
             n == IF stops = {} THEN Len(s) + 1
                  ELSE CHOOSE k \in stops : \A m \in stops : k <= m
         IN  <<SubSeq(s, 1, n - 1)>> \o ft_split(SubSeq(s, n, Len(s)), c)

S_pwd == <<"p", "w", "d">>
S_echo == <<"e", "c", "h", "o">>
S_cd == <<"c", "d">>
S_export == <<"e", "x", "p", "o", "r", "t">>
S_unset == <<"u", "n", "s", "e", "t">>
S_env == <<"e", "n", "v">>
S_exit == <<"e", "x", "i", "t">>
S_PATHeq == <<"P", "A", "T", "H", "=">>

\* the value the parent's waitpid reports for exit(n): the low eight bits
WEXITSTATUS(n) == n % 256

\* ------------------------------------------------------- standard error text
\* what a process wrote to descriptor 2, character by character
S_minishell == <<"m", "i", "n", "i", "s", "h", "e", "l", "l", ":", " ">>
S_notfound == <<":", " ", "c", "o", "m", "m", "a", "n", "d", " ",
                "n", "o", "t", " ", "f", "o", "u", "n", "d", "\n">>

\* ft_putstr_fd("minishell: : command not found\n", STDERR)
MsgEmpty == S_minishell \o S_notfound
\* the three ft_putstr_fd calls that end ft_execve
MsgNotFound(name) == S_minishell \o name \o S_notfound
\* perror(name): the name, ": ", the text of errno, a newline
MsgPerror(name) == name \o <<":", " ", "<strerror>", "\n">>

\* --------------------------------------------------- outcome of a call
\* k: "exec" (process image replaced), "exit" (exit(code)), "crash" (NULL
\* dereference), "return" (control back in the caller).  called/path: the
\* execve call made, if any.
Out(k, code, err, called, path) ==
    [k |-> k, code |-> code, err |-> err, called |-> called, path |-> path]

OutExit(code, err) == Out("exit", code, err, FALSE, <<>>)
OutReturn == Out("return", 0, <<>>, FALSE, <<>>)
OutCrash == Out("crash", 0, <<>>, FALSE, <<>>)

\* is_builtin comparing only as many characters as the built-in name has
is_builtin_prefix(name) ==
    \/ ft_strncmp(name, S_pwd, 3)
    \/ ft_strncmp(name, S_echo, 4)
    \/ ft_strncmp(name, S_cd, 2)
    \/ ft_strncmp(name, S_export, 6)
    \/ ft_strncmp(name, S_unset, 5)
    \/ ft_strncmp(name, S_env, 3)
    \/ ft_strncmp(name, S_exit, 4)

\* is_builtin(cmd), cmd->str[0] = name
is_builtin(name) ==
    \/ ft_strncmp(name, S_pwd, 4)
    \/ ft_strncmp(name, S_echo, 5)
    \/ ft_strncmp(name, S_cd, 3)
    \/ ft_strncmp(name, S_export, 7)
    \/ ft_strncmp(name, S_unset, 6)
    \/ ft_strncmp(name, S_env, 4)
    \/ ft_strncmp(name, S_exit, 5)

\* ft_pwd(): 0 when getcwd succeeds, 1 when it fails
ft_pwd(cwdOk) == IF cwdOk THEN 0 ELSE 1

\* execute_builtin(cmd, shell): <<handled, new g_return_value>>;
\* bi is the status the dispatched built-in returns
execute_builtin(name, g, bi) ==
    IF ft_strncmp(name, S_pwd, 4) THEN <<TRUE, bi>>
    ELSE IF ft_strncmp(name, S_echo, 5) THEN <<TRUE, bi>>
    ELSE IF ft_strncmp(name, S_cd, 3) THEN <<TRUE, bi>>
    ELSE IF ft_strncmp(name, S_export, 7) THEN <<TRUE, bi>>
    ELSE IF ft_strncmp(name, S_unset, 6) THEN <<TRUE, bi>>
    ELSE IF ft_strncmp(name, S_env, 4) THEN <<TRUE, bi>>
    ELSE IF ft_strncmp(name, S_exit, 5) THEN <<TRUE, bi>>
    ELSE <<FALSE, g>>

\* the statuses the built-in called for this name can return
BuiltinStatus(name) ==
    IF ft_strncmp(name, S_pwd, 4) THEN {ft_pwd(ok) : ok \in BOOLEAN}
    ELSE IF ft_strncmp(name, S_echo, 5) THEN {0}
    ELSE {0, 1}

\* ------------------------------------------------------------------- echo
S_dashn == <<"-", "n">>

\* the first index from `from` on at which s has no 'n' (its NUL at the latest)
SkipN(s, from) ==
    CHOOSE j \in from..Len(s) :
        /\ CharAt(s, j) # "n"
        /\ \A k \in from..(j - 1) : CharAt(s, k) = "n"

\* A call of last_check or check_n: the index returned, the values left in
\* *check and *n, whether the terminating NULL entry of argv was passed to
\* ft_strncmp as a string, and whether the process died there.  safe: the
\* ft_strncmp of the build survives a NULL argument and reports a mismatch.
FlagScan(i, check, n, nullread, crash) ==
    [i |-> i, check |-> check, n |-> n, nullread |-> nullread, crash |-> crash]

\* last_check(i, cmd)
RECURSIVE last_check(_, _, _)
last_check(i, str, safe) ==
    IF i >= Len(str) THEN FlagScan(i, 0, 0, TRUE, ~safe)
    ELSE IF ~ft_strncmp(str[i + 1], S_dashn, 2) THEN FlagScan(i, 0, 0, FALSE, FALSE)
    ELSE IF CharAt(str[i + 1], SkipN(str[i + 1], 1)) # NUL
         THEN FlagScan(i, 0, 0, FALSE, FALSE)
         ELSE last_check(i + 1, str, safe)

\* check_n(cmd, i, &check, &n)
check_n(str, i, check, n, safe) ==
    IF i >= Len(str) THEN FlagScan(i, check, n, TRUE, ~safe)
    ELSE IF ft_strncmp(str[i + 1], S_dashn, 2) /\ i = 1
    THEN LET c == SkipN(str[i + 1], check)
             flag == CharAt(str[i + 1], c) = NUL
             i1 == IF flag THEN i + 1 ELSE 1
             lc == IF i1 > 0 THEN last_check(i1, str, safe)
                   ELSE FlagScan(i1, 0, 0, FALSE, FALSE)
         IN  FlagScan(lc.i, IF flag THEN 0 ELSE c, IF flag THEN 0 ELSE n,
                      lc.nullread, lc.crash)
    ELSE FlagScan(i, check, n, FALSE, FALSE)

\* the printing loop of ft_echo from argv[i] on
RECURSIVE echo_args(_, _)
echo_args(str, i) ==
    IF i >= Len(str) THEN <<>>
    ELSE str[i + 1] \o (IF i + 1 < Len(str) THEN <<" ">> ELSE <<>>)
             \o echo_args(str, i + 1)

\* ft_echo(cmd) in a build whose ft_strncmp is or is not NULL-safe: how the
\* call ends ("return" with a status, or "crash"), what it wrote to
\* descriptor 1, and whether it read the NULL entry as a string
ft_echo_on(str, safe) ==
    LET r == check_n(str, 1, 1, 1, safe)
    IN  IF r.crash
        THEN [k |-> "crash", code |-> 0, out |-> <<>>, nullread |-> TRUE]
        ELSE [k |-> "return", code |-> 0,
              out |-> echo_args(str, r.i) \o
                      (IF r.n # 0 /\ r.check # 0 THEN <<"\n">> ELSE <<>>),
              nullread |-> r.nullread]

\* ft_echo(cmd): passing NULL to ft_strncmp is undefined, so both builds
ft_echo(str) == {ft_echo_on(str, safe) : safe \in BOOLEAN}

\* execute_currdir without its empty-name test
execute_currdir_nocheck(str, fs) ==
    IF ~ft_strchr(str[1], "/") THEN OutReturn
    ELSE IF str[1] \in fs.acc
         THEN IF str[1] \in fs.exe
              THEN Out("exec", 0, <<>>, TRUE, str[1])
              ELSE Out("exit", 126, S_minishell \o MsgPerror(str[1]), TRUE, str[1])
    ELSE OutReturn

\* execute_currdir(cmd, shell); fs.acc: paths access(F_OK) accepts,
\* fs.exe: paths execve succeeds on
execute_currdir(str, fs) ==
    IF str[1] = <<>> THEN OutExit(127, MsgEmpty)
    ELSE IF ~ft_strchr(str[1], "/") THEN OutReturn
    ELSE IF str[1] \in fs.acc
         THEN IF str[1] \in fs.exe
              THEN Out("exec", 0, <<>>, TRUE, str[1])
              ELSE Out("exit", 126, S_minishell \o MsgPerror(str[1]),
                       TRUE, str[1])
    ELSE OutReturn

\* ft_execve(cmd, shell, path) from directory i on; path = <<>> also
\* stands for the NULL array
RECURSIVE ft_execve_from(_, _, _, _)
ft_execve_from(str, fs, path, i) ==
    IF i > Len(path) THEN OutExit(127, MsgNotFound(str[1]))
    ELSE LET tmp == path[i] \o <<"/">> \o str[1]
         IN  IF tmp \in fs.acc
             THEN IF tmp \in fs.exe
                  THEN Out("exec", 0, <<>>, TRUE, tmp)
                  ELSE Out("exit", -1, MsgPerror(str[1]), TRUE, tmp)
             ELSE ft_execve_from(str, fs, path, i + 1)

\* ft_execve walking the directories from the last one to the first
ft_execve_reversed(str, fs, path) ==
    ft_execve_from(str, fs, [i \in 1..Len(path) |-> path[Len(path) + 1 - i]], 1)

ft_execve(str, fs, path) == ft_execve_from(str, fs, path, 1)

\* the index at which execute_cmd's search loop stops: the first entry
\* that starts with "PATH=", else the terminating NULL entry
PathIndex(vars) ==
    LET hits == {i \in 1..Len(vars) : ft_strncmp(vars[i], S_PATHeq, 5)}
    IN  IF hits = {} THEN Len(vars) + 1
        ELSE CHOOSE i \in hits : \A j \in hits : i <= j

\* what follows the failed built-in and literal-path attempts in
\* execute_cmd: the PATH lookup and the two ft_execve calls
path_search(str, env, fs, g) ==
    IF env.null
    \* line 116 reads shell->env[i] although the loop above stopped on
    \* shell->env == NULL: a NULL dereference, which kills the process or
    \* reads as "no PATH entry"
    THEN {OutCrash, ft_execve(str, fs, <<>>)}
    ELSE LET i == PathIndex(env.vars)
             first == IF i <= Len(env.vars)
                      THEN ft_execve(str, fs,
                               ft_split(SubSeq(env.vars[i], 6, Len(env.vars[i])), ":"))
                      ELSE OutReturn
             second == IF first.k # "return" THEN first
                       ELSE ft_execve(str, fs, <<>>)
         IN  IF second.k # "return" THEN {second} ELSE {OutExit(g, <<>>)}

\* execute_cmd(cmd, shell): the set of outcomes; env.null is shell->env ==
\* NULL, env.vars the entries before the terminating NULL; g is
\* g_return_value on entry
execute_cmd(str, env, fs, g) ==
    IF Len(str) = 0 THEN {OutExit(0, <<>>)}
    ELSE UNION {
        LET b == execute_builtin(str[1], g, bi)
        IN  IF b[1] THEN {OutExit(b[2], <<>>)}
            ELSE LET cur == execute_currdir(str, fs)
                 IN  IF cur.k # "return" THEN {cur}
                     ELSE path_search(str, env, fs, g)
        : bi \in BuiltinStatus(str[1]) }

\* ------------------------------------------------------------ descriptors
\* what a descriptor refers to: nothing, the terminal, a redirection
\* target, or an end of the pipe opened for stage i
NoObj == <<"none", 0>>
Tty == <<"tty", 0>>
File == <<"file", 0>>
\* what descriptor 1 of the shell refers to when it is not a terminal
Log == <<"log", 0>>
PipeR(i) == <<"r", i>>
PipeW(i) == <<"w", i>>
IsPipe(o) == o[1] \in {"r", "w"}

Fds == 0..(NFd - 1)
IsOpen(tab, fd) == fd \in Fds /\ tab[fd] # NoObj
FreeFds(tab) == {fd \in Fds : tab[fd] = NoObj}
Lowest(S) == CHOOSE x \in S : \A y \in S : x <= y

\* A process's descriptor state: the table, the close() calls it made (the
\* number passed and what it referred to) and whether it called exit(-1).
Proc(tab) == [fds |-> tab, log |-> <<>>, dead |-> FALSE]

\* close(fd)
sys_close(ps, fd) ==
    [ps EXCEPT !.fds = IF IsOpen(ps.fds, fd) THEN [ps.fds EXCEPT ![fd] = NoObj]
                       ELSE ps.fds,
               !.log = Append(ps.log,
                              <<fd, IF IsOpen(ps.fds, fd) THEN ps.fds[fd] ELSE NoObj>>)]

\* ft_dup(fd): <<process state, new descriptor>>
ft_dup(ps, fd) ==
    IF ~IsOpen(ps.fds, fd) \/ FreeFds(ps.fds) = {}
    THEN <<[ps EXCEPT !.dead = TRUE], -1>>
    ELSE LET n == Lowest(FreeFds(ps.fds))
         IN  <<[ps EXCEPT !.fds[n] = ps.fds[fd]], n>>

\* ft_dup2 without the close(fd1) that follows dup2
ft_dup2_noclose(ps, fd1, fd2) ==
    IF ~IsOpen(ps.fds, fd1) \/ fd2 \notin Fds
    THEN [ps EXCEPT !.dead = TRUE]
    ELSE [ps EXCEPT !.fds[fd2] = ps.fds[fd1]]

\* ft_dup2(fd1, fd2)
ft_dup2(ps, fd1, fd2) ==
    IF ~IsOpen(ps.fds, fd1) \/ fd2 \notin Fds
    THEN [ps EXCEPT !.dead = TRUE]
    ELSE sys_close([ps EXCEPT !.fds[fd2] = ps.fds[fd1]], fd1)

\* ft_pipe(fd) for stage i: <<process state, <<read end, write end>>>>
ft_pipe(ps, i, old) ==
    IF Cardinality(FreeFds(ps.fds)) < 2
    THEN <<[ps EXCEPT !.dead = TRUE], old>>
    ELSE LET r == Lowest(FreeFds(ps.fds))
             w == Lowest(FreeFds(ps.fds) \ {r})
         IN  <<[ps EXCEPT !.fds[r] = PipeR(i), !.fds[w] = PipeW(i)], <<r, w>>>>

\* handle_redirections(cmd, shell) as the caller sees it: the descriptors
\* it leaves on the standard streams and whether every redirection applied
RedirOutcomes == {"none", "out", "in", "outfail", "fail"}
RedirOk(r) == r \in {"none", "out", "in"}
handle_redirections(ps, r) ==
    IF r \in {"out", "outfail"} THEN [ps EXCEPT !.fds[STDOUT] = File]
    ELSE IF r = "in" THEN [ps EXCEPT !.fds[STDIN] = File]
    ELSE ps

\* single_cmd calling execute_builtin whatever handle_redirections returned
single_cmd_always(tab, g, name, r, bi) ==
    LET d1 == ft_dup(Proc(tab), STDIN)
        d2 == IF d1[1].dead THEN d1 ELSE ft_dup(d1[1], STDOUT)
        p3 == handle_redirections(d2[1], r)
        p4 == ft_dup2(p3, d1[2], STDIN)
        p5 == IF p4.dead THEN p4 ELSE ft_dup2(p4, d2[2], STDOUT)
    IN  [ps |-> p5, g |-> execute_builtin(name, g, bi)[2], ran |-> TRUE,
         saves |-> <<d1[2], d2[2]>>, out1 |-> p3.fds[STDOUT]]

\* single_cmd(shell) once is_builtin(shell->cmds) held: r is what
\* handle_redirections does, bi the status the built-in returns
single_cmd(tab, g, name, r, bi) ==
    LET d1 == ft_dup(Proc(tab), STDIN)
        d2 == IF d1[1].dead THEN d1 ELSE ft_dup(d1[1], STDOUT)
        p3 == handle_redirections(d2[1], r)
        g1 == IF RedirOk(r) THEN execute_builtin(name, g, bi)[2] ELSE g
        p4 == ft_dup2(p3, d1[2], STDIN)
        p5 == IF p4.dead THEN p4 ELSE ft_dup2(p4, d2[2], STDOUT)
    IN  IF d2[1].dead
        THEN [ps |-> d2[1], g |-> g, ran |-> FALSE, saves |-> <<d1[2], d2[2]>>,
              out1 |-> NoObj]
        ELSE [ps |-> p5, g |-> g1, ran |-> RedirOk(r), saves |-> <<d1[2], d2[2]>>,
              out1 |-> p3.fds[STDOUT]]

\* printf("%s\n", pwd) of ft_pwd: the stdout stream is line buffered when
\* it refers to a terminal, and then the newline makes it write() at once
\* to what descriptor 1 refers to; otherwise it is fully buffered and the
\* text stays in the buffer.  st: the stream, wr: the write() calls so far,
\* obj: what descriptor 1 refers to, rec: the text.
printf_stdout(st, wr, obj, rec) ==
    IF st.full
    THEN <<[st EXCEPT !.buf = Append(st.buf, rec)], wr>>
    ELSE <<st, Append(wr, [obj |-> obj, txt |-> rec])>>

\* the stream written out: every buffered text goes, in order, to what
\* descriptor 1 refers to now
RECURSIVE flush_stdout(_, _, _)
flush_stdout(buf, wr, obj) ==
    IF buf = <<>> THEN wr
    ELSE flush_stdout(Tail(buf), Append(wr, [obj |-> obj, txt |-> Head(buf)]), obj)

\* a reading of the wait status in which a non-zero status is kept over a
\* later normal exit
resolve_status_sticky(g, how) ==
    IF how[1] = "exit" THEN (IF g # 0 THEN g ELSE WEXITSTATUS(how[2]))
    ELSE IF how[2] = SIGINT THEN 130
    ELSE IF how[2] = SIGQUIT THEN 131
    ELSE g

\* a reading of the wait status with the two signal codes exchanged
resolve_status_swapped(g, how) ==
    IF how[1] = "exit" THEN WEXITSTATUS(how[2])
    ELSE IF how[2] = SIGINT THEN 131
    ELSE IF how[2] = SIGQUIT THEN 130
    ELSE g

\* ft_waitpid's reading of one wait status; how = <<"exit", n>> for
\* exit(n), <<"sig", n>> for death by signal n
resolve_status(g, how) ==
    IF how[1] = "exit" THEN WEXITSTATUS(how[2])
    ELSE IF how[2] = SIGINT THEN 130
    ELSE IF how[2] = SIGQUIT THEN 131
    ELSE g

\* the halt test without its 130 case
resolve_stop_quitonly(stop, g) == IF g = 131 THEN TRUE ELSE stop

\* ft_waitpid, lines 98-99
resolve_stop(stop, g) == IF g = 130 \/ g = 131 THEN TRUE ELSE stop

\* ------------------------------------------------------------------ inputs
S_x == <<"x">>
S_ax == <<"a", "/", "x">>
S_cx == <<"c", "/", "x">>
S_aax == <<"a", "/", "a", "/", "x">>
S_Peq == <<"P", "=", "a">>
S_PATHa == S_PATHeq \o <<"a">>
S_PATHac == S_PATHeq \o <<"a", ":", "c">>

\* shell->env: NULL, empty, without PATH, with PATH after another entry,
\* with a two-directory PATH
Envs ==
    {[null |-> TRUE, vars |-> <<>>]} \cup
    {[null |-> FALSE, vars |-> v] :
        v \in {<<>>, <<S_Peq>>, <<S_Peq, S_PATHa>>, <<S_PATHac>>}}

\* the file system as access() and execve() see it
Paths == {S_ax, S_cx, S_aax}
FsSet == {[acc |-> A, exe |-> E] : A \in SUBSET Paths, E \in SUBSET Paths} \cap
         {f \in [acc : SUBSET Paths, exe : SUBSET Paths] : f.exe \subseteq f.acc}

\* argument vectors: none at all, the empty name, a built-in, a plain
\* name, a name with a '/'
CmdStrs == {<<>>, <<<<>>>>, <<S_pwd>>, <<S_x>>, <<S_ax>>}
StageStrs == {<<>>, <<S_pwd>>, <<S_x>>}

\* how a program that was exec'ed ends
ProgTerms == {<<"exit", 0>>, <<"exit", 1>>, <<"exit", 130>>,
              <<"sig", SIGINT>>, <<"sig", SIGQUIT>>, <<"sig", SIGKILL>>}

\* how the process of an outcome of execute_cmd ends
HowsOf(o) ==
    IF o.k = "exec" THEN ProgTerms
    ELSE IF o.k = "crash" THEN {<<"sig", SIGSEGV>>}
    ELSE {<<"exit", o.code>>}

\* every way the child of a stage can end once its redirections applied,
\* over the environments and file systems above; g is the child's copy of
\* g_return_value
ChildHowsOf(str, g) ==
    UNION {HowsOf(o) : o \in UNION {execute_cmd(str, e, f, g) : e \in Envs, f \in FsSet}}

\* the same, tabulated for the last statuses the runs below produce
UsualStatus == {0, 1, 126, 127, 130, 131, 255}
ChildHowsTab == [str \in StageStrs, g \in UsualStatus |-> ChildHowsOf(str, g)]

ChildHows(str, g) ==
    IF g \in UsualStatus THEN ChildHowsTab[str, g] ELSE ChildHowsOf(str, g)

\* the child's side of handle_pipes: previous read end onto standard
\* input, own write end onto standard output, own read end closed
child_wire(ps, prev, pipefd, hasNext) ==
    LET p1 == IF prev # -1 THEN ft_dup2(ps, prev, STDIN) ELSE ps
        p2 == IF hasNext /\ ~p1.dead THEN ft_dup2(p1, pipefd[2], STDOUT) ELSE p1
    IN  IF hasNext /\ ~p2.dead THEN sys_close(p2, pipefd[1]) ELSE p2

\* the parent's side of handle_pipes: a pipe when a stage follows
handle_pipes(ps, i, hasNext, pipefd) ==
    IF hasNext THEN ft_pipe(ps, i, pipefd) ELSE <<ps, pipefd>>

\* the clean-up without close(prev_fd)
loop_cleanup_noprev(ps, prev, pipefd) == sys_close(ps, pipefd[2])

\* execute(), lines 177-179: the parent's descriptor clean-up of one stage
loop_cleanup(ps, prev, pipefd) == sys_close(sys_close(ps, prev), pipefd[2])

\* ------------------------------------------------------------------- state
VARIABLES
    pc,              \* where the shell is: prompt, entry, loop, wait, exited, crashed
    cmds,            \* shell->cmds: the stages, each [str, pipefd, pid]
    curr,            \* curr of execute() and of ft_waitpid(): a stage index
    prev_fd,         \* prev_fd of execute()
    shell_fds,       \* the shell's descriptor table
    closes,          \* the close() calls of the shell in this run
    g_return_value,  \* the last status
    stop,            \* shell->stop
    procs,           \* the child of each stage
    runs,            \* pipelines run so far
    left_stop,       \* shell->stop as the previous run left it
    forks,           \* forks of this run
    waits,           \* waitpid calls of this run
    fast,            \* this run returned through single_cmd
    ran,             \* this run executed the built-in in the shell
    saves,           \* save_stdin, save_stdout of single_cmd
    entry_fds,       \* the shell's descriptor table when execute() was entered
    call,            \* an isolated call of execute_cmd: arguments and outcome
    hd_stop,         \* handle_heredocs set shell->stop in this run
    redir,           \* what handle_redirections did in single_cmd in this run
    stdio,           \* the stdout stream of the shell: its buffering and its buffer
    writes,          \* the write() calls of the shell on descriptor 1 in this run
    bcall            \* an isolated call of a built-in: arguments and outcome

vars == <<pc, cmds, curr, prev_fd, shell_fds, closes, g_return_value, stop, procs,
          runs, left_stop, forks, waits, fast, ran, saves, entry_fds, call,
          hd_stop, redir, stdio, writes, bcall>>

\* a stage whose memory was cleared: pipefd holds descriptor 0 twice
new_stage_zeroed(str) == [str |-> str, pipefd |-> <<0, 0>>, pid |-> 0]

\* a stage as the parser hands it over: no descriptor in pipefd, no pid
new_stage(str) == [str |-> str, pipefd |-> <<-1, -1>>, pid |-> 0]
NoChild == [st |-> "none", how |-> <<"-", 0>>, ps |-> Proc([fd \in Fds |-> NoObj]),
            inh |-> {}, cg |-> 0]
NoCall == [str |-> <<>>, env |-> [null |-> FALSE, vars |-> <<>>],
           fs |-> [acc |-> {}, exe |-> {}], g |-> 0, out |-> OutReturn, done |-> FALSE]

N == Len(cmds)

NoBuiltinCall == [str |-> <<>>, isb |-> FALSE, handled |-> FALSE,
                  echo |-> [k |-> "none", code |-> 0, out |-> <<>>, nullread |-> FALSE],
                  done |-> FALSE]

\* The shell at its prompt: standard input and error on the terminal,
\* standard output on the terminal or not.
Init ==
    /\ pc = "prompt"
    /\ cmds = <<>>
    /\ curr = 1
    /\ prev_fd = -1
    /\ \E o \in {Tty, Log} :
        /\ shell_fds = [fd \in Fds |-> IF fd = STDOUT THEN o
                                      ELSE IF fd <= 2 THEN Tty ELSE NoObj]
        /\ stdio = [full |-> o # Tty, buf |-> <<>>]
    /\ hd_stop = FALSE
    /\ redir = "none"
    /\ writes = <<>>
    /\ bcall = NoBuiltinCall
    /\ closes = <<>>
    /\ g_return_value = 0
    /\ stop = FALSE
    /\ procs = <<>>
    /\ runs = 0
    /\ left_stop = FALSE
    /\ forks = 0
    /\ waits = 0
    /\ fast = FALSE
    /\ ran = FALSE
    /\ saves = <<-1, -1>>
    /\ entry_fds = shell_fds
    /\ call = NoCall

\* The caller of execute(): a freshly parsed pipeline, the halt flag
\* cleared for the new command line.
NewPipeline ==
    /\ pc = "prompt"
    /\ runs < MaxRuns
    /\ \E n \in 1..MaxStages : \E strs \in [1..n -> StageStrs] :
        /\ cmds' = [i \in 1..n |-> new_stage(strs[i])]
        /\ procs' = [i \in 1..n |-> NoChild]
    /\ stop' = FALSE
    /\ left_stop' = stop
    /\ pc' = "heredocs"
    /\ hd_stop' = FALSE
    /\ redir' = "none"
    /\ runs' = runs + 1
    /\ curr' = 1
    /\ prev_fd' = -1
    /\ closes' = <<>>
    /\ forks' = 0
    /\ waits' = 0
    /\ fast' = FALSE
    /\ ran' = FALSE
    /\ saves' = <<-1, -1>>
    /\ entry_fds' = shell_fds
    /\ writes' = <<>>
    /\ UNCHANGED <<shell_fds, g_return_value, call, stdio, bcall>>

\* execute(), line 162: handle_heredocs(shell).  The collaborator gets the
\* session and sets shell->stop when the collection of a heredoc is
\* interrupted, which is when the test of line 172 fails on the first turn.
HandleHeredocs ==
    /\ pc = "heredocs"
    /\ \E interrupted \in BOOLEAN :
        /\ stop' = (stop \/ interrupted)
        /\ hd_stop' = interrupted
    /\ pc' = "entry"
    /\ UNCHANGED <<cmds, curr, prev_fd, shell_fds, closes, g_return_value, procs, runs,
                   left_stop, forks, waits, fast, ran, saves, entry_fds, call, redir,
                   stdio, writes, bcall>>

\* execute(), lines 162-169, when single_cmd handles the pipeline
ExecuteFast ==
    /\ pc = "entry"
    /\ N = 1
    /\ Len(cmds[1].str) > 0
    /\ is_builtin(cmds[1].str[1])
    /\ \E r \in RedirOutcomes : \E bi \in BuiltinStatus(cmds[1].str[1]) :
        LET res == single_cmd(shell_fds, g_return_value, cmds[1].str[1], r, bi)
        IN  /\ shell_fds' = res.ps.fds
            /\ closes' = res.ps.log
            /\ g_return_value' = res.g
            /\ ran' = res.ran
            /\ saves' = res.saves
            /\ pc' = IF res.ps.dead THEN "exited" ELSE "prompt"
            /\ fast' = ~res.ps.dead
            /\ redir' = r
            /\ IF res.ran /\ ft_strncmp(cmds[1].str[1], S_pwd, 4) /\ bi = ft_pwd(TRUE)
               THEN LET pr == printf_stdout(stdio, writes, res.out1,
                                            [run |-> runs, redir |-> r])
                    IN  stdio' = pr[1] /\ writes' = pr[2]
               ELSE UNCHANGED <<stdio, writes>>
    /\ UNCHANGED <<cmds, curr, prev_fd, stop, procs, runs, left_stop, forks, waits,
                   entry_fds, call, hd_stop, bcall>>

\* execute(), lines 162-169, when the single stage has no argv[0]:
\* is_builtin passes the NULL to ft_strncmp, which reads through it
ExecuteNull ==
    /\ pc = "entry"
    /\ N = 1
    /\ Len(cmds[1].str) = 0
    /\ \E crash \in BOOLEAN : pc' = IF crash THEN "crashed" ELSE "loop"
    /\ UNCHANGED <<cmds, curr, prev_fd, shell_fds, closes, g_return_value, stop, procs,
                   runs, left_stop, forks, waits, fast, ran, saves, entry_fds, call,
                   hd_stop, redir, stdio, writes, bcall>>

\* execute(), lines 162-169, when single_cmd is not called or returns false
ExecutePipeline ==
    /\ pc = "entry"
    /\ \/ N > 1
       \/ N = 1 /\ Len(cmds[1].str) > 0 /\ ~is_builtin(cmds[1].str[1])
    /\ pc' = "loop"
    /\ UNCHANGED <<cmds, curr, prev_fd, shell_fds, closes, g_return_value, stop, procs,
                   runs, left_stop, forks, waits, fast, ran, saves, entry_fds, call,
                   hd_stop, redir, stdio, writes, bcall>>

\* execute(), lines 172-182: one turn of the stage loop
LoopStep ==
    /\ pc = "loop"
    /\ curr <= N
    /\ ~stop
    /\ \E forkOk \in BOOLEAN :
        LET hp == handle_pipes([Proc(shell_fds) EXCEPT !.log = closes], curr,
                               curr < N, cmds[curr].pipefd)
            pipefd == hp[2]
            after == loop_cleanup(hp[1], prev_fd, pipefd)
        IN  IF hp[1].dead \/ ~forkOk
            THEN /\ pc' = "exited"
                 /\ shell_fds' = hp[1].fds
                 /\ UNCHANGED <<cmds, curr, prev_fd, closes, procs, forks>>
            ELSE /\ pc' = "loop"
                 /\ cmds' = [cmds EXCEPT ![curr].pipefd = pipefd, ![curr].pid = curr]
                 /\ procs' = [procs EXCEPT ![curr] =
                                 [st |-> "running", how |-> <<"-", 0>>,
                                  ps |-> Proc(hp[1].fds),
                                  inh |-> {hp[1].fds[fd] : fd \in Fds} \ {NoObj, Tty, File, Log},
                                  cg |-> g_return_value]]
                 /\ forks' = forks + 1
                 /\ shell_fds' = after.fds
                 /\ closes' = after.log
                 /\ prev_fd' = pipefd[1]
                 /\ curr' = curr + 1
    /\ UNCHANGED <<g_return_value, stop, runs, left_stop, waits, fast, ran, saves,
                   entry_fds, call,
                   hd_stop, redir, stdio, writes, bcall>>

\* the loop left before every stage was launched
LoopExit_anytime ==
    /\ pc = "loop"
    /\ pc' = "wait"
    /\ curr' = 1
    /\ UNCHANGED <<cmds, prev_fd, shell_fds, closes, g_return_value, stop, procs, runs,
                   left_stop, forks, waits, fast, ran, saves, entry_fds, call,
                   hd_stop, redir, stdio, writes, bcall>>

\* execute(), lines 172 and 183: the loop ends and ft_waitpid starts
LoopExit ==
    /\ pc = "loop"
    /\ (curr > N \/ stop)
    /\ pc' = "wait"
    /\ curr' = 1
    /\ UNCHANGED <<cmds, prev_fd, shell_fds, closes, g_return_value, stop, procs, runs,
                   left_stop, forks, waits, fast, ran, saves, entry_fds, call,
                   hd_stop, redir, stdio, writes, bcall>>

\* The child of stage i from fork to its end: the wiring of its standard
\* streams, its redirections, execute_cmd, and the program it became.
ChildRun(i) ==
    /\ i \in 1..N
    /\ procs[i].st = "running"
    /\ \E rok \in BOOLEAN :
        LET prev == IF i = 1 THEN -1 ELSE cmds[i - 1].pipefd[1]
            wired == child_wire(procs[i].ps, prev, cmds[i].pipefd, i < N)
        IN  \E how \in (IF wired.dead THEN {<<"exit", -1>>}
                        ELSE IF ~rok THEN {<<"exit", 1>>}
                        ELSE ChildHows(cmds[i].str, procs[i].cg)) :
                procs' = [procs EXCEPT ![i].st = "term", ![i].how = how, ![i].ps = wired]
    /\ UNCHANGED <<pc, cmds, curr, prev_fd, shell_fds, closes, g_return_value, stop,
                   runs, left_stop, forks, waits, fast, ran, saves, entry_fds, call,
                   hd_stop, redir, stdio, writes, bcall>>

\* the statuses an unwritten int status can be read as
UninitHows == {<<"exit", 0>>, <<"sig", SIGINT>>, <<"sig", SIGKILL>>}

\* ft_waitpid(), lines 85-101: one turn of the loop; waitpid blocks until
\* the child has ended, and fails at once for a stage that has no child
WaitStep ==
    /\ pc = "wait"
    /\ curr <= N
    /\ procs[curr].st \in {"term", "none"}
    /\ \E how \in (IF procs[curr].st = "term" THEN {procs[curr].how} ELSE UninitHows) :
        /\ g_return_value' = resolve_status(g_return_value, how)
        /\ stop' = resolve_stop(stop, resolve_status(g_return_value, how))
    /\ procs' = [procs EXCEPT ![curr].st =
                    IF procs[curr].st = "term" THEN "reaped" ELSE "none"]
    /\ waits' = waits + 1
    /\ curr' = curr + 1
    /\ UNCHANGED <<pc, cmds, prev_fd, shell_fds, closes, runs, left_stop, forks, fast,
                   ran, saves, entry_fds, call,
                   hd_stop, redir, stdio, writes, bcall>>

\* ft_waitpid(), line 85, and the return of execute()
WaitExit ==
    /\ pc = "wait"
    /\ curr > N
    /\ pc' = "prompt"
    /\ UNCHANGED <<cmds, curr, prev_fd, shell_fds, closes, g_return_value, stop, procs,
                   runs, left_stop, forks, waits, fast, ran, saves, entry_fds, call,
                   hd_stop, redir, stdio, writes, bcall>>

\* the shell back at its prompt: the stdout stream is written out, at the
\* latest by the exit() of the shell
StdioFlush ==
    /\ pc = "prompt"
    /\ stdio.buf # <<>>
    /\ writes' = flush_stdout(stdio.buf, writes, shell_fds[STDOUT])
    /\ stdio' = [stdio EXCEPT !.buf = <<>>]
    /\ UNCHANGED <<pc, cmds, curr, prev_fd, shell_fds, closes, g_return_value, stop,
                   procs, runs, left_stop, forks, waits, fast, ran, saves, entry_fds,
                   call, hd_stop, redir, bcall>>

Next ==
    \/ NewPipeline
    \/ HandleHeredocs
    \/ ExecuteFast
    \/ ExecuteNull
    \/ ExecutePipeline
    \/ LoopStep
    \/ LoopExit
    \/ \E i \in 1..MaxStages : ChildRun(i)
    \/ WaitStep
    \/ WaitExit
    \/ StdioFlush

Spec == Init /\ [][Next]_vars

\* ------------------------------------------- execute_cmd called on its own
\* One call of execute_cmd in a child process, over every argument vector,
\* environment and file system above.
InitCmd ==
    /\ pc = "prompt"
    /\ cmds = <<>>
    /\ curr = 1
    /\ prev_fd = -1
    /\ shell_fds = [fd \in Fds |-> IF fd <= 2 THEN Tty ELSE NoObj]
    /\ closes = <<>>
    /\ g_return_value = 0
    /\ stop = FALSE
    /\ procs = <<>>
    /\ runs = 0
    /\ left_stop = FALSE
    /\ forks = 0
    /\ waits = 0
    /\ fast = FALSE
    /\ ran = FALSE
    /\ saves = <<-1, -1>>
    /\ entry_fds = shell_fds
    /\ hd_stop = FALSE
    /\ redir = "none"
    /\ stdio = [full |-> FALSE, buf |-> <<>>]
    /\ writes = <<>>
    /\ bcall = NoBuiltinCall
    /\ \E str \in CmdStrs : \E e \in Envs : \E f \in FsSet : \E g \in {0, 1} :
        call = [NoCall EXCEPT !.str = str, !.env = e, !.fs = f, !.g = g]

ApplyCmd ==
    /\ ~call.done
    /\ \E o \in execute_cmd(call.str, call.env, call.fs, call.g) :
        call' = [call EXCEPT !.out = o, !.done = TRUE]
    /\ UNCHANGED <<pc, cmds, curr, prev_fd, shell_fds, closes, g_return_value, stop,
                   procs, runs, left_stop, forks, waits, fast, ran, saves, entry_fds,
                   hd_stop, redir, stdio, writes, bcall>>

NextCmd == ApplyCmd

SpecCmd == InitCmd /\ [][NextCmd]_vars

\* --------------------------------------------- a built-in called on its own
MaxArgs == 3

S_a == <<"a">>
S_b == <<"b">>
S_dash == <<"-">>
S_dashnn == <<"-", "n", "n">>
S_dashnx == <<"-", "n", "x">>

\* arguments of echo: flags, a lone dash, a flag look-alike, words, the
\* empty string
EchoWords == {S_dashn, S_dashnn, S_dashnx, S_dash, S_a, S_b, <<>>}
EchoStrs == UNION {{<<S_echo>> \o w : w \in [1..n -> EchoWords]} : n \in 0..MaxArgs}

\* command names: the built-ins, proper prefixes, extensions, other case,
\* the empty name
Names == {S_pwd, S_echo, S_cd, S_export, S_unset, S_env, S_exit,
          <<"p", "w">>, <<"p", "w", "d", "x">>, <<"e", "c", "h">>,
          <<"e", "c", "h", "o", "o">>, <<"c">>, <<"c", "d", "d">>,
          <<"e", "x", "p", "o", "r", "t", "s">>, <<"u", "n", "s", "e">>,
          <<"e", "n">>, <<"e", "n", "v", "s">>, <<"e", "x", "i">>,
          <<"e", "x", "i", "t", "t">>, <<"P", "W", "D">>, <<"d", "p", "w", "d">>,
          S_x, <<>>}

BuiltinStrs == {<<n>> : n \in Names} \cup EchoStrs

InitBuiltin ==
    /\ pc = "prompt"
    /\ cmds = <<>>
    /\ curr = 1
    /\ prev_fd = -1
    /\ shell_fds = [fd \in Fds |-> IF fd <= 2 THEN Tty ELSE NoObj]
    /\ closes = <<>>
    /\ g_return_value = 0
    /\ stop = FALSE
    /\ procs = <<>>
    /\ runs = 0
    /\ left_stop = FALSE
    /\ forks = 0
    /\ waits = 0
    /\ fast = FALSE
    /\ ran = FALSE
    /\ saves = <<-1, -1>>
    /\ entry_fds = shell_fds
    /\ hd_stop = FALSE
    /\ redir = "none"
    /\ stdio = [full |-> FALSE, buf |-> <<>>]
    /\ writes = <<>>
    /\ call = NoCall
    /\ \E str \in BuiltinStrs : bcall = [NoBuiltinCall EXCEPT !.str = str]

\* is_builtin and execute_builtin on the name, and ft_echo when
\* execute_builtin dispatches to it
ApplyBuiltin ==
    /\ ~bcall.done
    /\ \E e \in (IF ft_strncmp(bcall.str[1], S_echo, 5) THEN ft_echo(bcall.str)
                  ELSE {NoBuiltinCall.echo}) :
        bcall' = [bcall EXCEPT !.isb = is_builtin(bcall.str[1]),
                               !.handled = execute_builtin(bcall.str[1], 0, e.code)[1],
                               !.echo = e,
                               !.done = TRUE]
    /\ UNCHANGED <<pc, cmds, curr, prev_fd, shell_fds, closes, g_return_value, stop,
                   procs, runs, left_stop, forks, waits, fast, ran, saves, entry_fds,
                   call, hd_stop, redir, stdio, writes>>

NextBuiltin == ApplyBuiltin

SpecBuiltin == InitBuiltin /\ [][NextBuiltin]_vars

\* ------------------------------------------------------------------ claims
\* execute() has returned
Returned == pc = "prompt" /\ runs > 0
\* execute() has returned through the stage loop and ft_waitpid
Orchestrated == Returned /\ ~fast
\* the pipeline is one stage whose argv[0] is a built-in name
SingleBuiltin == N = 1 /\ Len(cmds[1].str) > 0 /\ is_builtin(cmds[1].str[1])

CountClosed(log, o) == Cardinality({k \in 1..Len(log) : log[k][2] = o})
\* no close() of a descriptor number that an earlier close() of the same
\* log already closed and nothing reopened
NoDoubleClose(log) ==
    \A k \in 1..Len(log) : \A j \in 1..(k - 1) :
        ~(log[k][1] >= 0 /\ log[k][2] = NoObj /\ log[j][1] = log[k][1])

C2_FastPathRouting ==
    (runs > 0 /\ pc \notin {"heredocs", "entry"}) =>
        IF SingleBuiltin
        THEN forks = 0 /\ waits = 0 /\ pc \in {"prompt", "exited"}
             /\ (pc = "prompt" => fast)
        ELSE ~fast /\ pc \in {"loop", "wait", "prompt", "exited"}

\* C3: when single_cmd has returned true, descriptors 0 and 1 refer to what
\* they referred to on entry, each saved copy was closed by exactly one
\* close() that found it open, and the shell holds the descriptors it held.
C3_StreamsRestored ==
    (fast /\ pc = "prompt") =>
        /\ shell_fds[STDIN] = entry_fds[STDIN]
        /\ shell_fds[STDOUT] = entry_fds[STDOUT]
        /\ saves[1] # saves[2]
        /\ \A k \in 1..2 :
            /\ saves[k] \in Fds
            /\ Cardinality({j \in 1..Len(closes) : closes[j][1] = saves[k]}) = 1
            /\ \A j \in 1..Len(closes) : closes[j][1] = saves[k] => closes[j][2] # NoObj
        /\ Len(closes) = 2
        /\ {fd \in Fds : IsOpen(shell_fds, fd)} = {fd \in Fds : IsOpen(entry_fds, fd)}

\* single_cmd returned true although the redirections failed
C3_Witness ==
    /\ fast
    /\ pc = "prompt"
    /\ ~ran
    /\ Len(closes) = 2

C5_State ==
    /\ (Orchestrated /\ procs[N].how = <<"sig", SIGINT>>) => g_return_value = 130
    /\ (Orchestrated /\ \E i \in 1..N : procs[i].how = <<"sig", SIGINT>>) => stop
    /\ (Orchestrated /\ left_stop /\ ~hd_stop) => forks = N

\* C5 amended, step part: no stage is launched while the halt flag is set
C5_Step == (stop /\ runs' = runs) => forks' = forks

C6_State ==
    Orchestrated =>
        /\ ~hd_stop => forks = N
        /\ waits = N
        /\ Cardinality({i \in 1..N : procs[i].st = "reaped"}) = forks
        /\ \A i \in 1..N : procs[i].st \in {"reaped", "none"}

\* C6, step part: once a wait of this pipeline was issued no stage is
\* launched, and waits are issued by ft_waitpid only, one at a time.
C6_Step ==
    /\ (waits > 0 /\ runs' = runs) => forks' = forks
    /\ (waits' # waits /\ runs' = runs) => (pc = "wait" /\ waits' = waits + 1)

\* C6: every wait comes after the last launch of its pipeline and there is
\* exactly one wait per launched stage.
C6_WaitAfterLaunch == []C6_State /\ [][C6_Step]_vars

\* both children of a two-stage pipeline are forked, one is reaped and the
\* other still waited for
C6_Witness ==
    /\ pc = "wait"
    /\ N = 2
    /\ forks = 2
    /\ waits = 1
    /\ procs[1].st = "reaped"
    /\ procs[2].st # "reaped"

\* C7: right after ft_waitpid processed a stage (and so after the last one,
\* when it returns) g_return_value is the low byte of the exit code if the
\* child exited, 130 if SIGINT killed it, 131 if SIGQUIT did.
C7_ResolvedStatus ==
    (runs > 0 /\ ~fast /\ pc \in {"wait", "prompt"} /\ curr > 1
        /\ procs[curr - 1].st = "reaped") =>
        LET h == procs[curr - 1].how
        IN  /\ h[1] = "exit" => g_return_value = h[2] % 256
            /\ h = <<"sig", SIGINT>> => g_return_value = 130
            /\ h = <<"sig", SIGQUIT>> => g_return_value = 131

\* the last stage was killed by SIGQUIT after the first exited with -1
C7_Witness ==
    /\ Orchestrated
    /\ N = 2
    /\ procs[1].how = <<"exit", -1>>
    /\ procs[2].how = <<"sig", SIGQUIT>>
    /\ g_return_value = 131

\* C8: a call of execute_cmd ends in a replaced process image or in exit()
\* with a status, whatever the argument vector and the environment.
C8_NeverReturns == call.done => call.out.k \in {"exec", "exit"}

\* C9: with an environment present, a name that contains '/' is only ever
\* passed to execve as it stands, and when it is not accessible the process
\* exits 127 after "minishell: <name>: command not found".
C9_SlashIsLiteral ==
    (call.done /\ ~call.env.null /\ Len(call.str) > 0 /\ ft_strchr(call.str[1], "/")) =>
        /\ call.out.called => call.out.path = call.str[1]
        /\ call.str[1] \notin call.fs.acc =>
            /\ call.out.k = "exit"
            /\ call.out.code = 127
            /\ call.out.err = MsgNotFound(call.str[1])

\* C10 as stated: an empty command, argv[0] empty or argv without element,
\* exits 127 after "minishell: : command not found" and executes nothing.
C10_EmptyIs127 ==
    (call.done /\ (Len(call.str) = 0 \/ call.str[1] = <<>>)) =>
        /\ call.out.k = "exit"
        /\ call.out.code = 127
        /\ call.out.err = MsgEmpty
        /\ ~call.out.called

\* C10 amended: argv[0] empty exits 127 after "minishell: : command not
\* found"; argv without element exits 0 and writes nothing; neither
\* executes a program.
C10_EmptyCommand ==
    call.done =>
        /\ (Len(call.str) > 0 /\ call.str[1] = <<>>) =>
            /\ call.out.k = "exit"
            /\ call.out.code = 127
            /\ call.out.err = MsgEmpty
            /\ ~call.out.called
        /\ Len(call.str) = 0 =>
            /\ call.out.k = "exit"
            /\ call.out.code = 0
            /\ call.out.err = <<>>
            /\ ~call.out.called

\* execute_cmd was called with argv[0] empty and a PATH in the environment
C10_Witness ==
    /\ call.done
    /\ call.str = <<<<>>>>
    /\ call.env.vars = <<S_PATHac>>
    /\ call.out.code = 127

\* the directories execute_cmd hands to ft_execve for this environment
SearchDirs(env) ==
    IF PathIndex(env.vars) <= Len(env.vars)
    THEN ft_split(SubSeq(env.vars[PathIndex(env.vars)], 6,
                         Len(env.vars[PathIndex(env.vars)])), ":")
    ELSE <<>>

\* execute_cmd was called, with an environment, on a name that is not
\* empty, not a built-in and has no '/'
PlainNameCall ==
    /\ call.done
    /\ ~call.env.null
    /\ Len(call.str) > 0
    /\ call.str[1] # <<>>
    /\ ~ft_strchr(call.str[1], "/")
    /\ ~is_builtin(call.str[1])

\* C11: for a name without '/', the one execve call made is on the first
\* directory of the list whose dir + "/" + argv[0] is accessible, and the
\* process ends there (a new image, or exit at once); when no directory
\* has an accessible candidate, or there is no PATH entry, the process
\* exits 127 after "minishell: <command>: command not found" and calls no
\* execve.
C11_FirstAccessibleDir ==
    PlainNameCall =>
        LET dirs == SearchDirs(call.env)
            cand(i) == dirs[i] \o <<"/">> \o call.str[1]
            hits == {i \in 1..Len(dirs) : cand(i) \in call.fs.acc}
        IN  IF hits = {}
            THEN /\ call.out.k = "exit"
                 /\ call.out.code = 127
                 /\ call.out.err = MsgNotFound(call.str[1])
                 /\ ~call.out.called
            ELSE /\ call.out.called
                 /\ call.out.path = cand(Lowest(hits))
                 /\ call.out.k = IF cand(Lowest(hits)) \in call.fs.exe
                                 THEN "exec" ELSE "exit"

\* PATH=a:c, a/x is accessible but cannot be executed, c/x can: the process
\* exited on a/x and c/x was never tried
C11_Witness ==
    /\ PlainNameCall
    /\ call.env.vars = <<S_PATHac>>
    /\ S_ax \in call.fs.acc
    /\ S_ax \notin call.fs.exe
    /\ S_cx \in call.fs.exe
    /\ call.out.k = "exit"
    /\ call.out.path = S_ax

\* the exit codes the interface documents for the resolver
DocumentedCodes == {0, 1, 126, 127, 130, 131}

\* C12: when execute_cmd found the file and its execve failed, the status
\* ft_waitpid reads for the stage is 126, whether the file was the literal
\* path or came from a search directory; and every exit of execute_cmd is
\* read as one of the documented codes.
C12_ExecFailureIs126 ==
    (call.done /\ call.out.k = "exit") =>
        /\ call.out.called => resolve_status(call.g, <<"exit", call.out.code>>) = 126
        /\ resolve_status(call.g, <<"exit", call.out.code>>) \in DocumentedCodes

\* an argument that is '-' followed by one or more 'n'
IsFlag(s) == Len(s) >= 2 /\ s[1] = "-" /\ \A k \in 2..Len(s) : s[k] = "n"

\* the length of the unbroken run of flags that starts at argv[1]
FlagRun(str) ==
    CHOOSE m \in 0..(Len(str) - 1) :
        /\ \A k \in 1..m : IsFlag(str[k + 1])
        /\ m = Len(str) - 1 \/ ~IsFlag(str[m + 2])

RECURSIVE JoinSpaces(_)
JoinSpaces(words) ==
    IF words = <<>> THEN <<>>
    ELSE IF Len(words) = 1 THEN words[1]
    ELSE words[1] \o <<" ">> \o JoinSpaces(Tail(words))

\* ft_echo was called
EchoCalled == bcall.done /\ bcall.str[1] = S_echo

\* C13: ft_echo writes the arguments after the run of leading flags, joined
\* by single spaces, followed by a newline exactly when the run is empty.
C13_EchoOutput ==
    EchoCalled =>
        bcall.echo.out =
            JoinSpaces(SubSeq(bcall.str, FlagRun(bcall.str) + 2, Len(bcall.str)))
                \o (IF FlagRun(bcall.str) = 0 THEN <<"\n">> ELSE <<>>)

\* C14: ft_echo returns 0 for every argument vector and never passes the
\* terminating NULL entry of argv to a string function.
C14_EchoReturnsZero ==
    EchoCalled =>
        /\ bcall.echo.k = "return"
        /\ bcall.echo.code = 0
        /\ ~bcall.echo.nullread

BuiltinNames == {S_pwd, S_echo, S_cd, S_export, S_unset, S_env, S_exit}

\* C15: is_builtin holds exactly for the seven built-in names, and
\* execute_builtin takes a built-in branch for exactly the names is_builtin
\* holds for.
C15_ExactNames ==
    bcall.done =>
        /\ bcall.isb <=> bcall.str[1] \in BuiltinNames
        /\ bcall.handled <=> bcall.isb

\* "pwdx" was looked up and is not a built-in for either function
C15_Witness ==
    /\ bcall.done
    /\ bcall.str = <<<<"p", "w", "d", "x">>>>
    /\ ~bcall.isb
    /\ ~bcall.handled

\* the texts of this run that printf produced, written or still buffered
TextsOfRun ==
    {k \in 1..Len(writes) : writes[k].txt.run = runs} \cup
    {-k : k \in {j \in 1..Len(stdio.buf) : stdio.buf[j].run = runs}}

\* C16: when the redirections of a single built-in stage failed, the
\* built-in was not run and wrote nothing, the shell is back at its prompt
\* with the stage handled (no fork, no wait), and descriptors 0 and 1 refer
\* to what they referred to on entry.
C16_FailedRedirection ==
    (runs > 0 /\ pc \notin {"heredocs", "entry"} /\ SingleBuiltin /\ ~RedirOk(redir)) =>
        /\ ~ran
        /\ TextsOfRun = {}
        /\ pc = "prompt"
        /\ fast
        /\ forks = 0
        /\ waits = 0
        /\ shell_fds[STDIN] = entry_fds[STDIN]
        /\ shell_fds[STDOUT] = entry_fds[STDOUT]

\* `pwd > f` where f was opened and a later redirection failed
C16_Witness ==
    /\ SingleBuiltin
    /\ redir = "outfail"
    /\ pc = "prompt"
    /\ fast
    /\ ~ran
    /\ shell_fds[STDOUT] = entry_fds[STDOUT]

\* g_return_value after ft_waitpid processed stages 1..i, from g0
RECURSIVE StatusAfter(_, _)
StatusAfter(g0, i) ==
    IF i = 0 THEN g0 ELSE resolve_status(StatusAfter(g0, i - 1), procs[i].how)

\* a termination that ft_waitpid resolves to 130 or 131
ResolvesToHalt(how) ==
    \/ how = <<"sig", SIGINT>>
    \/ how = <<"sig", SIGQUIT>>
    \/ how[1] = "exit" /\ how[2] % 256 \in {130, 131}

\* C17: after a pipeline whose stages were all launched and reaped,
\* g_return_value is what the terminations of its stages give from any
\* starting value (so from 0), and shell->stop is set only if one of its
\* stages resolved to 130 or 131.
C17_StatusFromThisRun ==
    (Orchestrated /\ \A i \in 1..N : procs[i].st = "reaped") =>
        /\ g_return_value = StatusAfter(0, N)
        /\ stop => \E i \in 1..N : ResolvesToHalt(procs[i].how)

\* C18: every waitpid call ft_waitpid has issued reaped a child that was
\* forked for the stage, so no wait was issued for a stage never launched
\* and no status was read that a wait did not write.
C18_WaitsOnlyForked ==
    (runs > 0 /\ ~fast) =>
        waits = Cardinality({i \in 1..N : procs[i].st = "reaped"})

\* the stage loop of this run has started
InLoopRun == runs > 0 /\ (pc \in {"loop", "wait"} \/ Orchestrated)

C20_PwdReachesTarget ==
    /\ \A k \in 1..Len(writes) :
        writes[k].obj = IF writes[k].txt.redir = "out" THEN File ELSE entry_fds[STDOUT]
    /\ (fast /\ pc = "prompt" /\ ran /\ redir = "out" /\ g_return_value = 0) =>
        \E k \in 1..Len(writes) : writes[k].txt.run = runs /\ writes[k].obj = File
    /\ (fast /\ pc = "prompt" /\ ran /\ g_return_value = 1) => TextsOfRun = {}

====
